---- MODULE Spec2Model ----
(***************************************************************************)
(* CryptoUtils (src/crypto_utils.py): RSA key-pair generation and the      *)
(* chunked encrypt_message / decrypt_message codec, driven by a caller     *)
(* that generates keys, encrypts a message, and hands a (possibly altered) *)
(* copy of the stored ciphertext string to decrypt_message.                *)
(*                                                                         *)
(* Python str values are sequences of code points, bytes values are        *)
(* sequences of 0..255.  The library codecs (UTF-8, base64) are computed   *)
(* byte by byte.  RSA-OAEP is a stand-in with the library's contract: the  *)
(* EME-OAEP block layout 00 || seed || lHash || PS || 01 || M of           *)
(* key_size/8 bytes, the length limit k - 2*hLen - 2, and a keyed          *)
(* byte-wise transform in place of modular exponentiation and masking, so  *)
(* that only the matching private key recovers a well-formed block.        *)
(*                                                                         *)
(* The password codec (hash_password / verify_password) is driven by a     *)
(* caller that hashes a password and checks submitted passwords against    *)
(* stored records.  PBKDF2-HMAC-SHA256 is a stand-in that keeps HMAC's key *)
(* preparation and the digest length.  Request threads share the one       *)
(* CryptoUtils instance, and messages_view reads the message store.        *)
(*                                                                         *)
(* The in-memory application (src/app.py) is modelled twice: its handlers  *)
(* served one at a time for a browser with a session, and register and     *)
(* send_message served on concurrent threads, a step per access to the     *)
(* shared maps.  IdentityVerifier (src/identity_verifier.py) is driven by  *)
(* a caller that sends and checks verification codes while the clock       *)
(* advances, and mark_message_read (src/database_app.py, src/models.py) by *)
(* logged-in users marking stored messages.                                *)
(***************************************************************************)
EXTENDS Integers, Sequences, FiniteSets, TLC

\* Bounds of the model.
MaxKeys == 2      \* key pairs the caller generates
MaxChunks == 2    \* plaintexts reach MaxChunks * max_chunk_size + MaxTail characters
MaxTail == 2      \* free characters at the end of a plaintext
MaxPass == 2      \* characters of a password
MaxRecords == 2   \* hash_password calls on the password
MaxThreads == 2   \* request threads sharing the instance
MaxMessages == 2  \* messages in the store

\* Program and library constants.
HashLen == 20         \* PKCS1_OAEP.new(key): SHA-1, 20-byte digests
OaepOverhead == 42    \* the literal of max_chunk_size
Separator == 124      \* '|'
PadChar == 61         \* '='
SaltLen == 32         \* get_random_bytes(32); decoded_hash[:32]
DigestLen == 32       \* 'sha256': 32-byte digests
HmacBlock == 64       \* 'sha256': 64-byte blocks

VARIABLES
  key_size,           \* CryptoUtils.key_size
  keys,               \* the (public_key, private_key) pairs generate_key_pair returned
  keygen,             \* outcome of the last generate_key_pair call
  pc,                 \* caller: "idle", "encrypted", "decrypted", and
                      \* "encrypted_again", "decrypted_again"
  message,            \* encrypt_message: message
  public_key_pem,     \* encrypt_message: public_key_pem
  seed,               \* encrypt_message: the random draw of the OAEP padding
  fail_at,            \* encrypt_message: chunk at which cipher.encrypt raises (0: none)
  enc,                \* outcome of encrypt_message
  tamper,             \* how the caller's ciphertext string was altered
  encrypted_message,  \* decrypt_message: encrypted_message
  private_key_pem,    \* decrypt_message: private_key_pem
  dec,                \* outcome of decrypt_message
  again,              \* a second encrypt_message call on the same message and key
  hashed,             \* the hash_password calls made: password, draw, outcome
  checked,            \* the last verify_password call: arguments and outcome
  threads,            \* per request thread: the call in progress and its outcome
  messages,           \* the message store, in the order the messages were sent
  view,               \* the last messages_view request: user and outcome
  users,              \* app.py: users, entry n under the key user_n
  session,            \* the browser's session: its user_id, if any
  response,           \* the last request of the browser and what it got
  requests,           \* per request thread: the handler in progress and its locals
  successes,          \* the requests that reported success, and what they stored
  codes,              \* identity_verifier.py: verification_codes_storage
  issued,             \* the verification codes generated so far
  now,                \* the clock, in minutes
  read_at,            \* models.py: Message.read_at of the messages that have one
  logged              \* the records the last call wrote with logging.error

vars == <<key_size, keys, keygen, pc, message, public_key_pem, seed, fail_at,
          enc, tamper, encrypted_message, private_key_pem, dec, again, hashed,
          checked, threads, messages, view, users, session, response,
          requests, successes, codes, issued, now, read_at, logged>>

\* The variables the caller of the key and message codec leaves alone, those
\* the caller of the password codec leaves alone, those the request threads
\* leave alone, and those the message store's handlers leave alone.
\* The variables of the web application's handlers.
of_app == <<users, session, response, requests, successes, codes, issued, now,
           read_at>>

outside_codec == <<hashed, checked, threads, messages, view, of_app>>
outside_password == <<keys, keygen, pc, message, public_key_pem, seed, fail_at,
                      enc, tamper, encrypted_message, private_key_pem, dec, again,
                      threads, messages, view, of_app>>
outside_threads == <<keys, keygen, pc, message, public_key_pem, seed, fail_at,
                     enc, tamper, encrypted_message, private_key_pem, dec, again,
                     hashed, checked, messages, view, of_app>>
outside_store == <<keys, keygen, pc, message, public_key_pem, seed, fail_at,
                   enc, tamper, encrypted_message, private_key_pem, dec, again,
                   hashed, checked, threads, of_app>>

----------------------------------------------------------------------------
\* Outcomes of a call: a returned value, or the raised Exception's message.

Return(v) == [ok |-> TRUE, value |-> v]
Raise(msg) == [ok |-> FALSE, error |-> msg]

\* raise Exception(msg): the class of the exception object and its message.
Exception(msg) == [ok |-> FALSE, class |-> "Exception", error |-> msg]
NoCall == [ok |-> FALSE, error |-> "not called"]

Min(a, b) == IF a <= b THEN a ELSE b

\* A local variable: F applied to the value of v, evaluated once.
Let(v, F(_)) == CHOOSE r \in {F(w) : w \in {v}} : TRUE

\* A statement that may raise: F continues with the value r returned, and
\* an exception r raised propagates.
Then(r, F(_)) == CHOOSE y \in {IF w.ok THEN F(w.value) ELSE w : w \in {r}} : TRUE

\* A list built element by element, as a sequence value.
List(f) == f \o <<>>

\* f[lo] \o ... \o f[hi], by halving (sequences here are hundreds long).
RECURSIVE Flatten(_, _, _)
Flatten(f, lo, hi) ==
  IF lo > hi THEN <<>>
  ELSE IF lo = hi THEN f[lo]
  ELSE LET mid == (lo + hi) \div 2
       IN Flatten(f, lo, mid) \o Flatten(f, mid + 1, hi)

\* The positions of s, in order, whose element satisfies Test.
Positions(s, Test(_)) ==
  LET At(i) == Test(s[i])
  IN SelectSeq([i \in 1..Len(s) |-> i], At)

----------------------------------------------------------------------------
\* str.encode('utf-8') and bytes.decode('utf-8') (strict).

EncodeCodePoint(c) ==
  IF c < 128 THEN <<c>>
  ELSE IF c < 2048 THEN <<192 + (c \div 64), 128 + (c % 64)>>
  ELSE IF c < 65536 THEN <<224 + (c \div 4096), 128 + ((c \div 64) % 64), 128 + (c % 64)>>
  ELSE <<240 + (c \div 262144), 128 + ((c \div 4096) % 64),
         128 + ((c \div 64) % 64), 128 + (c % 64)>>

IsSurrogate(c) == c \in 55296..57343

Utf8Encode(s) ==
  IF \E i \in 1..Len(s) : IsSurrogate(s[i])
  THEN Raise("UnicodeEncodeError")
  ELSE Return(Flatten([i \in 1..Len(s) |-> EncodeCodePoint(s[i])], 1, Len(s)))

IsCont(b) == b \in 128..191

\* Length of the sequence a lead byte starts; 0 for a byte that starts none.
Utf8SeqLen(b) ==
  IF b < 128 THEN 1
  ELSE IF b \in 194..223 THEN 2
  ELSE IF b \in 224..239 THEN 3
  ELSE IF b \in 240..244 THEN 4
  ELSE 0

\* The values the second byte of a sequence may take, by lead byte.
Utf8Second(b) ==
  IF b = 224 THEN 160..191
  ELSE IF b = 237 THEN 128..159
  ELSE IF b = 240 THEN 144..191
  ELSE IF b = 244 THEN 128..143
  ELSE 128..191

Utf8ValidAt(bs, i) ==
  LET n == Utf8SeqLen(bs[i])
  IN /\ n > 0
     /\ i + n - 1 <= Len(bs)
     /\ \A j \in (i + 1)..(i + n - 1) : IsCont(bs[j])
     /\ n > 1 => bs[i + 1] \in Utf8Second(bs[i])
     /\ i + n <= Len(bs) => ~IsCont(bs[i + n])

Utf8CodePointAt(bs, i) ==
  LET n == Utf8SeqLen(bs[i])
  IN IF n = 1 THEN bs[i]
     ELSE IF n = 2 THEN (bs[i] - 192) * 64 + (bs[i + 1] - 128)
     ELSE IF n = 3 THEN (bs[i] - 224) * 4096 + (bs[i + 1] - 128) * 64 + (bs[i + 2] - 128)
     ELSE (bs[i] - 240) * 262144 + (bs[i + 1] - 128) * 4096
          + (bs[i + 2] - 128) * 64 + (bs[i + 3] - 128)

Utf8Decode(bs) ==
  IF /\ Len(bs) > 0 => ~IsCont(bs[1])
     /\ \A i \in 1..Len(bs) : ~IsCont(bs[i]) => Utf8ValidAt(bs, i)
  THEN Return(Flatten([i \in 1..Len(bs) |->
                         IF IsCont(bs[i]) THEN <<>> ELSE <<Utf8CodePointAt(bs, i)>>],
                      1, Len(bs)))
  ELSE Raise("UnicodeDecodeError")

----------------------------------------------------------------------------
\* base64.b64encode and base64.b64decode (validate=False), on ASCII codes.

B64Char(v) ==
  IF v < 26 THEN 65 + v
  ELSE IF v < 52 THEN 97 + (v - 26)
  ELSE IF v < 62 THEN 48 + (v - 52)
  ELSE IF v = 62 THEN 43
  ELSE 47

IsB64Data(c) ==
  c \in 65..90 \/ c \in 97..122 \/ c \in 48..57 \/ c = 43 \/ c = 47

B64Value(c) ==
  IF c \in 65..90 THEN c - 65
  ELSE IF c \in 97..122 THEN c - 97 + 26
  ELSE IF c \in 48..57 THEN c - 48 + 52
  ELSE IF c = 43 THEN 62
  ELSE 63

b64encode(bs) ==
  LET n == Len(bs)
      Byte(i) == IF i <= n THEN bs[i] ELSE 0
  IN [j \in 1..(4 * ((n + 2) \div 3)) |->
        LET g == (j - 1) \div 4
            k == (j - 1) % 4
            b0 == Byte(3 * g + 1)
            b1 == Byte(3 * g + 2)
            b2 == Byte(3 * g + 3)
        IN IF k = 0 THEN B64Char(b0 \div 4)
           ELSE IF k = 1 THEN B64Char((b0 % 4) * 16 + (b1 \div 16))
           ELSE IF k = 2
             THEN (IF 3 * g + 2 > n THEN PadChar ELSE B64Char((b1 % 16) * 4 + (b2 \div 64)))
           ELSE (IF 3 * g + 3 > n THEN PadChar ELSE B64Char(b2 % 64))]

\* binascii.a2b_base64 without strict mode: characters outside the alphabet
\* are skipped; a '=' that completes the padding of a quad ends the parse.
B64PadEnds(s, i) ==
  LET kept == SelectSeq(SubSeq(s, 1, i), LAMBDA c : IsB64Data(c) \/ c = PadChar)
      data == Positions(kept, IsB64Data)
      quad_pos == Len(data) % 4
      pads == Len(kept) - (IF data = <<>> THEN 0 ELSE data[Len(data)])
  IN quad_pos >= 2 /\ quad_pos + pads >= 4

b64decode(s) ==
  LET ends == SelectSeq(Positions(s, LAMBDA c : c = PadChar), LAMBDA i : B64PadEnds(s, i))
      body == IF ends = <<>> THEN s ELSE SubSeq(s, 1, ends[1] - 1)
      d == SelectSeq(body, IsB64Data)
      m == Len(d)
      v(i) == B64Value(d[i])
  IN IF ends = <<>> /\ m % 4 # 0
     THEN Raise("binascii.Error")
     ELSE Return([j \in 1..(3 * (m \div 4) + (IF m % 4 >= 2 THEN (m % 4) - 1 ELSE 0)) |->
                    LET g == (j - 1) \div 3
                        k == (j - 1) % 3
                    IN IF k = 0 THEN (v(4 * g + 1) * 4 + (v(4 * g + 2) \div 16)) % 256
                       ELSE IF k = 1 THEN (v(4 * g + 2) * 16 + (v(4 * g + 3) \div 4)) % 256
                       ELSE (v(4 * g + 3) * 64 + v(4 * g + 4)) % 256])

----------------------------------------------------------------------------
\* Crypto.PublicKey.RSA and Crypto.Cipher.PKCS1_OAEP.

\* key.export_key() / key.publickey().export_key(): the PEM text of a key.
PublicPem(id, bits) == [label |-> "PUBLIC KEY", id |-> id, bits |-> bits]
PrivatePem(id, bits) == [label |-> "RSA PRIVATE KEY", id |-> id, bits |-> bits]
GarbagePem == [label |-> "", id |-> 0, bits |-> 0]

\* RSA.import_key: ValueError on text that is no key.
import_key(pem) ==
  IF pem.label \in {"PUBLIC KEY", "RSA PRIVATE KEY"}
  THEN Return([id |-> pem.id, bits |-> pem.bits,
               has_private |-> pem.label = "RSA PRIVATE KEY"])
  ELSE Raise("ValueError")

\* SHA-1 of the empty label.
LHash == <<218, 57, 163, 238, 94, 107, 75, 13, 50, 85,
           191, 239, 149, 96, 24, 144, 175, 216, 7, 9>>

\* The keyed transform standing in for RSA: the private key of pair id
\* undoes exactly what the public key of pair id did.
KeyByte(id) == (37 * id) % 256

\* cipher.encrypt(m): one block of k bytes; rnd is the random seed drawn.
OaepEncrypt(key, m, rnd) ==
  LET k == key.bits \div 8
      at == k - Len(m)
  IN IF Len(m) > k - 2 * HashLen - 2
     THEN Raise("ValueError")
     ELSE Return([i \in 1..k |->
            LET em == IF i = 1 THEN 0
                      ELSE IF i <= 1 + HashLen THEN (rnd + i) % 256
                      ELSE IF i <= 1 + 2 * HashLen THEN LHash[i - 1 - HashLen]
                      ELSE IF i < at THEN 0
                      ELSE IF i = at THEN 1
                      ELSE m[i - at]
            IN (em + KeyByte(key.id)) % 256])

\* cipher.decrypt(ct): the message of a well-formed block, else an error.
OaepDecrypt(key, ct) ==
  LET k == key.bits \div 8
      em == [i \in 1..Len(ct) |-> (ct[i] + 256 - KeyByte(key.id)) % 256]
      nz == SelectSeq([i \in 1..(Len(ct) - 1 - 2 * HashLen) |-> i + 1 + 2 * HashLen],
                      LAMBDA i : em[i] # 0)
  IN IF Len(ct) # k THEN Raise("ValueError")
     ELSE IF ~key.has_private THEN Raise("TypeError")
     ELSE IF \/ em[1] # 0
             \/ SubSeq(em, 2 + HashLen, 1 + 2 * HashLen) # LHash
             \/ nz = <<>>
             \/ em[nz[1]] # 1
       THEN Raise("ValueError")
     ELSE Return(SubSeq(em, nz[1] + 1, k))

----------------------------------------------------------------------------
\* str.split and str.join.

Split(s, sep) ==
  LET at == Positions(s, LAMBDA c : c = sep)
      n == Len(at) + 1
  IN [i \in 1..n |-> SubSeq(s, IF i = 1 THEN 1 ELSE at[i - 1] + 1,
                               IF i = n THEN Len(s) ELSE at[i] - 1)]

Join(parts, sep) ==
  Flatten([i \in 1..Len(parts) |-> IF i = 1 THEN parts[1] ELSE <<sep>> \o parts[i]],
          1, Len(parts))

\* range(0, n, step)
Range(n, step) == [c \in 1..((n + step - 1) \div step) |-> (c - 1) * step]

----------------------------------------------------------------------------
\* CryptoUtils

\* generate_key_pair: RSA.generate draws key pair id; fails when the
\* primitive raises.
generate_key_pair(id, primitive_fails) ==
  IF primitive_fails
  THEN Exception("Failed to generate RSA key pair")
  ELSE Return(<<PublicPem(id, key_size), PrivatePem(id, key_size)>>)

\* Mutant: one byte more of overhead than the padding scheme has.
max_chunk_size_short == (key_size \div 8) - OaepOverhead - 1

max_chunk_size == (key_size \div 8) - OaepOverhead

\* Mutant: the loop stops before a final chunk shorter than max_chunk_size.
ChunksDropTail(message_bytes) ==
  LET starts == Range(Len(message_bytes) - (Len(message_bytes) % max_chunk_size),
                      max_chunk_size)
  IN [c \in 1..Len(starts) |->
        SubSeq(message_bytes, starts[c] + 1, starts[c] + max_chunk_size)]

\* Mutant: the loop steps by max_chunk_size - 1, so chunks overlap by a byte.
ChunksOverlap(message_bytes) ==
  LET starts == Range(Len(message_bytes), max_chunk_size - 1)
  IN [c \in 1..Len(starts) |->
        SubSeq(message_bytes, starts[c] + 1,
               Min(starts[c] + max_chunk_size, Len(message_bytes)))]

\* Mutant: range(0, len + 1, max_chunk_size), an empty chunk after a full last one.
ChunksExtraEmpty(message_bytes) ==
  LET starts == Range(Len(message_bytes) + 1, max_chunk_size)
  IN [c \in 1..Len(starts) |->
        SubSeq(message_bytes, starts[c] + 1,
               Min(starts[c] + max_chunk_size, Len(message_bytes)))]

\* message_bytes[i:i + max_chunk_size] for i in range(0, len, max_chunk_size)
Chunks(message_bytes) ==
  LET starts == Range(Len(message_bytes), max_chunk_size)
  IN [c \in 1..Len(starts) |->
        SubSeq(message_bytes, starts[c] + 1,
               Min(starts[c] + max_chunk_size, Len(message_bytes)))]

\* Mutant: the except clause returns what the loop has appended so far.
EncryptFailedPartial(done) == Return(Join(done, Separator))

\* The except clause of encrypt_message; done holds the chunks appended so far.
EncryptFailed(done) == Exception("Failed to encrypt message")

\* Mutant: the padding seed is a constant, so encryption is deterministic.
EncryptChunkFixedSeed(key, chunk, c, rnd, fail) ==
  Then(IF c = fail THEN Raise("ValueError") ELSE OaepEncrypt(key, chunk, 0),
       LAMBDA encrypted_chunk : Return(b64encode(encrypted_chunk)))

\* base64.b64encode(cipher.encrypt(chunk)).decode('utf-8') on chunk c of the
\* call; the primitive raises at chunk fail.
EncryptChunk(key, chunk, c, rnd, fail) ==
  Then(IF c = fail THEN Raise("ValueError") ELSE OaepEncrypt(key, chunk, rnd + c - 1),
       LAMBDA encrypted_chunk : Return(b64encode(encrypted_chunk)))

encrypt_message(msg, pem, rnd, fail) ==
  Let(import_key(pem), LAMBDA public_key :
  Let(Utf8Encode(msg), LAMBDA message_bytes :
    IF ~public_key.ok \/ ~message_bytes.ok THEN EncryptFailed(<<>>)
    ELSE IF Len(message_bytes.value) <= max_chunk_size
      THEN Let(EncryptChunk(public_key.value, message_bytes.value, 1, rnd, fail),
               LAMBDA encrypted_data :
                 IF encrypted_data.ok THEN encrypted_data ELSE EncryptFailed(<<>>))
    ELSE Let(Chunks(message_bytes.value), LAMBDA parts :
         Let(List([c \in 1..Len(parts) |->
                     EncryptChunk(public_key.value, parts[c], c, rnd, fail)]),
             LAMBDA out :
         Let(Positions(out, LAMBDA r : ~r.ok), LAMBDA bad :
           IF bad = <<>>
           THEN Return(Join([c \in 1..Len(out) |-> out[c].value], Separator))
           ELSE EncryptFailed([c \in 1..(bad[1] - 1) |-> out[c].value]))))))

\* Mutant: the except clause returns the text of the chunks decrypted so far.
DecryptFailedPartial(done) ==
  Let(Utf8Decode(Flatten(done, 1, Len(done))),
      LAMBDA text : IF text.ok THEN text ELSE Return(<<>>))

\* Mutant: the except clause returns an empty text.
DecryptFailedEmpty(done) == Return(<<>>)

\* The except clause of decrypt_message; done holds the chunks decrypted so far.
DecryptFailed(done) == Exception("Failed to decrypt message")

\* Mutant: a chunk the cipher rejects contributes no bytes instead of raising.
DecryptChunkLenient(key, chunk) ==
  Then(Utf8Encode(chunk), LAMBDA raw :
  Then(b64decode(raw), LAMBDA encrypted_data :
  Let(OaepDecrypt(key, encrypted_data),
      LAMBDA decrypted_chunk :
        IF decrypted_chunk.ok THEN decrypted_chunk ELSE Return(<<>>))))

\* cipher.decrypt(base64.b64decode(chunk.encode('utf-8')))
DecryptChunk(key, chunk) ==
  Then(Utf8Encode(chunk), LAMBDA raw :
  Then(b64decode(raw), LAMBDA encrypted_data :
  OaepDecrypt(key, encrypted_data)))

\* Mutant: every chunk is decoded as UTF-8 on its own and the texts are joined.
DecodeChunksEach(decrypted_chunks) ==
  Let(List([c \in 1..Len(decrypted_chunks) |-> Utf8Decode(decrypted_chunks[c])]),
      LAMBDA texts :
        IF \E c \in 1..Len(texts) : ~texts[c].ok
        THEN Raise("UnicodeDecodeError")
        ELSE Return(Flatten([c \in 1..Len(texts) |-> texts[c].value], 1, Len(texts))))

\* b''.join(decrypted_chunks).decode('utf-8')
DecodeChunks(decrypted_chunks) ==
  Let(Flatten(decrypted_chunks, 1, Len(decrypted_chunks)), Utf8Decode)

\* '|' in encrypted_message
IsChunked(s) == \E i \in 1..Len(s) : s[i] = Separator

decrypt_message(s, pem) ==
  Let(import_key(pem), LAMBDA private_key :
    IF ~private_key.ok THEN DecryptFailed(<<>>)
    ELSE IF IsChunked(s)
      THEN Let(List(Split(s, Separator)), LAMBDA chunks :
           Let(List([c \in 1..Len(chunks) |-> DecryptChunk(private_key.value, chunks[c])]),
               LAMBDA out :
           Let(Positions(out, LAMBDA r : ~r.ok), LAMBDA bad :
           Let(List([c \in 1..(IF bad = <<>> THEN Len(out) ELSE bad[1] - 1) |->
                       out[c].value]),
               LAMBDA decrypted_chunks :
           Let(DecodeChunks(decrypted_chunks), LAMBDA text :
             IF bad = <<>> /\ text.ok THEN text ELSE DecryptFailed(decrypted_chunks))))))
    ELSE Let(DecryptChunk(private_key.value, s), LAMBDA decrypted_data :
         Let(Then(decrypted_data, Utf8Decode), LAMBDA text :
           IF text.ok THEN text ELSE DecryptFailed(<<>>))))

----------------------------------------------------------------------------
\* hashlib.pbkdf2_hmac('sha256', ...) and the password codec.

\* SHA-256 stand-in: DigestLen bytes; byte i folds the length of data and
\* the bytes of data that lie DigestLen apart from position i, each stride
\* with its own odd weight.  It keeps what the codec relies on: a fixed
\* output length and different digests for the different inputs used here.
RECURSIVE StrideSum(_, _, _)
StrideSum(data, i, stride) ==
  IF i > Len(data) THEN 0
  ELSE (2 * stride + 1) * data[i] + StrideSum(data, i + DigestLen, stride + 1)

Sha256(data) == [i \in 1..DigestLen |-> (Len(data) + StrideSum(data, i, 0)) % 256]

\* HMAC's key (RFC 2104, as hashlib applies it): a key longer than the hash
\* block is replaced by its digest, and the key is then padded with zero
\* bytes to the block length.
HmacKey(key) ==
  LET k == IF Len(key) > HmacBlock THEN Sha256(key) ELSE key
  IN k \o [i \in 1..(HmacBlock - Len(k)) |-> 0]

\* hashlib.pbkdf2_hmac('sha256', password, salt, 100000): DigestLen bytes,
\* a function of the HMAC key of the password and of the salt.
pbkdf2_hmac(password, salt) == Sha256(HmacKey(password) \o salt)

\* get_random_bytes(n) for the draw rnd of the random source.
get_random_bytes(n, rnd) == [i \in 1..n |-> (rnd + 7 * i) % 256]

\* Mutant: the salt is a constant of the instance, not the bytes drawn.
hash_password_fixed_salt(password, rnd) ==
  Then(Utf8Encode(password), LAMBDA password_bytes :
  Let(get_random_bytes(SaltLen, 0), LAMBDA salt :
    Return(b64encode(salt \o pbkdf2_hmac(password_bytes, salt)))))

\* Mutant: the record is hash || salt.
hash_password_hash_first(password, rnd) ==
  Then(Utf8Encode(password), LAMBDA password_bytes :
  Let(get_random_bytes(SaltLen, rnd), LAMBDA salt :
    Return(b64encode(pbkdf2_hmac(password_bytes, salt) \o salt))))

\* hash_password: no try block, so an encoding error propagates as it is.
hash_password(password, rnd) ==
  Then(Utf8Encode(password), LAMBDA password_bytes :
  Let(get_random_bytes(SaltLen, rnd), LAMBDA salt :
    Return(b64encode(salt \o pbkdf2_hmac(password_bytes, salt)))))

\* Mutant: the comparison stops at the end of the shorter operand.
SameBytesPrefix(password_hash, stored_hash) ==
  \A i \in 1..Min(Len(password_hash), Len(stored_hash)) :
    password_hash[i] = stored_hash[i]

\* password_hash == stored_hash
SameBytes(password_hash, stored_hash) == password_hash = stored_hash

\* The except clause of verify_password.
VerifyFailed == Return(FALSE)

verify_password(password, hashed_password) ==
  Let(Then(Utf8Encode(hashed_password), b64decode), LAMBDA decoded_hash :
  Let(Utf8Encode(password), LAMBDA password_bytes :
    IF ~decoded_hash.ok \/ ~password_bytes.ok THEN VerifyFailed
    ELSE Let(SubSeq(decoded_hash.value, 1, Min(SaltLen, Len(decoded_hash.value))),
             LAMBDA salt :
         Let(SubSeq(decoded_hash.value, SaltLen + 1, Len(decoded_hash.value)),
             LAMBDA stored_hash :
           Return(SameBytes(pbkdf2_hmac(password_bytes.value, salt), stored_hash))))))

----------------------------------------------------------------------------
\* The caller's inputs.

Chars == {97, 233}            \* 'a' (one byte), U+00E9 (two bytes)
Seeds == {5, 140}             \* random draws of the padding seed
Junk == <<33>>                \* "!", outside the base64 alphabet

RECURSIVE SeqsUpTo(_, _)
SeqsUpTo(S, n) ==
  IF n = 0 THEN {<<>>}
  ELSE LET shorter == SeqsUpTo(S, n - 1)
       IN shorter \cup {Append(t, c) : t \in {u \in shorter : Len(u) = n - 1}, c \in S}

\* Plaintexts: a run of 'a' ending one short of a chunk boundary, then a tail.
PadLens == {0} \cup {c * max_chunk_size - 1 : c \in 1..MaxChunks}
HelloWorld == <<104, 101, 108, 108, 111, 32, 119, 111, 114, 108, 100>>
Messages == {[i \in 1..n |-> 97] \o t : n \in PadLens, t \in SeqsUpTo(Chars, MaxTail)}
            \cup {HelloWorld}

\* The key texts the caller holds.
PublicPems == {k[1] : k \in keys}
PrivatePems == {k[2] : k \in keys}

\* What may have happened to a stored ciphertext string before it is decrypted.
Tampers(s) ==
  LET n == Len(Split(s, Separator))
  IN {[kind |-> k, seg |-> 0] : k \in {"none", "empty", "unpad", "append_sep"}}
     \cup {[kind |-> k, seg |-> i] : k \in {"corrupt"}, i \in 1..n}
     \cup {[kind |-> k, seg |-> i] : k \in {"junk"}, i \in {1, n}}
     \cup {[kind |-> k, seg |-> i] : k \in {"truncate"}, i \in {n}}
     \cup {[kind |-> k, seg |-> i] : k \in {"drop"}, i \in (IF n > 1 THEN 1..n ELSE {})}
     \cup {[kind |-> k, seg |-> i] : k \in {"swap"}, i \in 1..(n - 1)}

NextB64Char(c) == IF IsB64Data(c) THEN B64Char((B64Value(c) + 1) % 64) ELSE c

Tampered(s, t) ==
  LET segs == Split(s, Separator)
      n == Len(segs)
      Edit(f(_)) == Join([i \in 1..n |-> IF i = t.seg THEN f(segs[i]) ELSE segs[i]],
                         Separator)
  IN CASE t.kind = "none" -> s
       [] t.kind = "empty" -> <<>>
       [] t.kind = "unpad" -> SelectSeq(s, LAMBDA c : c # PadChar)
       [] t.kind = "append_sep" -> Append(s, Separator)
       [] t.kind = "junk" -> Edit(LAMBDA g : <<g[1]>> \o Junk \o Tail(g))
       [] t.kind = "corrupt" -> Edit(LAMBDA g : <<NextB64Char(g[1])>> \o Tail(g))
       [] t.kind = "truncate" -> Edit(LAMBDA g : SubSeq(g, 1, Len(g) - 4))
       [] t.kind = "drop" ->
            Join([i \in 1..(n - 1) |-> IF i < t.seg THEN segs[i] ELSE segs[i + 1]],
                 Separator)
       [] t.kind = "swap" ->
            Join([i \in 1..n |-> IF i = t.seg THEN segs[i + 1]
                                 ELSE IF i = t.seg + 1 THEN segs[i - 1]
                                 ELSE segs[i]], Separator)

\* The private key generate_key_pair returned together with public key pem.
MatchingPrivatePem(pem) == (CHOOSE k \in keys : k[1] = pem)[2]

\* decrypt_message is called on the stored string, or on the empty string,
\* with any key text; on an altered string, with the recipient's private key.
DecryptInputs(s) ==
  {[tamper |-> t, pem |-> pem] :
     t \in {u \in Tampers(s) : u.kind \in {"none", "empty"}},
     pem \in PrivatePems \cup {GarbagePem, public_key_pem}}
  \cup {[tamper |-> t, pem |-> MatchingPrivatePem(public_key_pem)] :
          t \in {u \in Tampers(s) : u.kind \notin {"none", "empty"}}}

----------------------------------------------------------------------------
\* The state machine.

NoTamper == [kind |-> "none", seg |-> 0]

\* logging.error(f"<what>: {str(e)}") in the except clause of a call whose
\* outcome is out: one record when the call failed, none otherwise.
Logged(what, out) == IF out.ok THEN <<>> ELSE <<what>>

Init ==
  /\ key_size = 2048
  /\ keys = {}
  /\ keygen = NoCall
  /\ pc = "idle"
  /\ message = <<>>
  /\ public_key_pem = GarbagePem
  /\ seed = 0
  /\ fail_at = 0
  /\ enc = NoCall
  /\ tamper = NoTamper
  /\ encrypted_message = <<>>
  /\ private_key_pem = GarbagePem
  /\ dec = NoCall
  /\ again = NoCall
  /\ hashed = <<>>
  /\ checked = NoCall
  /\ threads = [t \in 1..MaxThreads |-> [pc |-> "idle"]]
  /\ messages = <<>>
  /\ view = NoCall
  /\ users = <<>>
  /\ session = <<>>
  /\ response = [handler |-> "none"]
  /\ requests = [t \in 1..MaxThreads |-> [at |-> "idle"]]
  /\ successes = {}
  /\ codes = {}
  /\ issued = <<>>
  /\ now = 0
  /\ read_at = {}
  /\ logged = <<>>

GenerateKeyPair ==
  /\ pc = "idle"
  /\ Cardinality(keys) < MaxKeys
  /\ \E primitive_fails \in BOOLEAN :
       /\ keygen' = generate_key_pair(Cardinality(keys) + 1, primitive_fails)
       /\ keys' = IF keygen'.ok THEN keys \cup {keygen'.value} ELSE keys
  /\ logged' = Logged("Key generation error", keygen')
  /\ UNCHANGED <<key_size, pc, message, public_key_pem, seed, fail_at, enc, tamper,
                 encrypted_message, private_key_pem, dec, again>>
  /\ UNCHANGED outside_codec

\* Messages are exchanged once the caller's MaxKeys key pairs exist.
EncryptMessage ==
  /\ pc = "idle"
  /\ Cardinality(keys) = MaxKeys
  /\ \E msg \in Messages, pem \in PublicPems \cup {GarbagePem}, rnd \in Seeds :
       \E fail \in 0..(IF Len(Utf8Encode(msg).value) <= max_chunk_size THEN 1
                       ELSE Len(Range(Len(Utf8Encode(msg).value), max_chunk_size))) :
         /\ message' = msg
         /\ public_key_pem' = pem
         /\ seed' = rnd
         /\ fail_at' = fail
         /\ enc' = encrypt_message(msg, pem, rnd, fail)
  /\ pc' = "encrypted"
  /\ logged' = Logged("Encryption error", enc')
  /\ UNCHANGED <<key_size, keys, keygen, tamper, encrypted_message, private_key_pem,
                 dec, again>>
  /\ UNCHANGED outside_codec

DecryptMessage ==
  /\ pc = "encrypted"
  /\ enc.ok
  /\ \E in \in DecryptInputs(enc.value) :
       /\ tamper' = in.tamper
       /\ encrypted_message' = Tampered(enc.value, in.tamper)
       /\ private_key_pem' = in.pem
       /\ dec' = decrypt_message(encrypted_message', in.pem)
  /\ pc' = "decrypted"
  /\ logged' = Logged("Decryption error", dec')
  /\ UNCHANGED <<key_size, keys, keygen, message, public_key_pem, seed, fail_at, enc,
                 again>>
  /\ UNCHANGED outside_codec

\* The sender submits the text the recipient has just read once more:
\* encrypt_message on the same message and key, with a fresh draw.
EncryptAgain ==
  /\ pc = "decrypted"
  /\ tamper = NoTamper
  /\ private_key_pem = MatchingPrivatePem(public_key_pem)
  /\ \E rnd \in Seeds \ {seed} :
       again' = [seed |-> rnd,
                 enc |-> encrypt_message(message, public_key_pem, rnd, 0),
                 dec |-> NoCall]
  /\ pc' = "encrypted_again"
  /\ logged' = Logged("Encryption error", again'.enc)
  /\ UNCHANGED <<key_size, keys, keygen, message, public_key_pem, seed, fail_at, enc,
                 tamper, encrypted_message, private_key_pem, dec>>
  /\ UNCHANGED outside_codec

\* The recipient reads the second copy.
DecryptAgain ==
  /\ pc = "encrypted_again"
  /\ again.enc.ok
  /\ again' = [again EXCEPT !.dec = decrypt_message(again.enc.value, private_key_pem)]
  /\ pc' = "decrypted_again"
  /\ logged' = Logged("Decryption error", again'.dec)
  /\ UNCHANGED <<key_size, keys, keygen, message, public_key_pem, seed, fail_at, enc,
                 tamper, encrypted_message, private_key_pem, dec>>
  /\ UNCHANGED outside_codec

\* The caller is done with the values of the last calls.
Discard ==
  /\ pc \in {"encrypted", "decrypted", "encrypted_again", "decrypted_again"}
  /\ pc' = "idle"
  /\ message' = <<>>
  /\ public_key_pem' = GarbagePem
  /\ seed' = 0
  /\ fail_at' = 0
  /\ enc' = NoCall
  /\ tamper' = NoTamper
  /\ encrypted_message' = <<>>
  /\ private_key_pem' = GarbagePem
  /\ dec' = NoCall
  /\ again' = NoCall
  /\ logged' = <<>>
  /\ UNCHANGED <<key_size, keys, keygen>>
  /\ UNCHANGED outside_codec

Next ==
  \/ GenerateKeyPair
  \/ EncryptMessage
  \/ DecryptMessage
  \/ EncryptAgain
  \/ DecryptAgain
  \/ Discard

Spec == Init /\ [][Next]_vars

----------------------------------------------------------------------------
\* The password codec, driven by a caller that registers a password (and
\* hashes it again, as on a password reset to the same value) and checks
\* submitted passwords against the stored records, intact or damaged.

PassChars == {0, 97}          \* NUL, 'a'
Passwords == SeqsUpTo(PassChars, MaxPass) \cup {<<233>>}
Unencodable == <<55296>>      \* a str of one lone surrogate
Draws == {40 * d + 5 : d \in 1..MaxRecords}
NotValidBase64 == <<110, 111, 116, 45, 118, 97, 108, 105, 100, 45,
                    98, 97, 115, 101, 54, 52, 33, 33>>

\* Lengths a stored record is cut down (or stretched) to, in decoded bytes.
CutLens == {0, SaltLen - 1, SaltLen, SaltLen + 1, SaltLen + DigestLen - 1,
            SaltLen + DigestLen + 1}

RecordTampers ==
  {[kind |-> k, len |-> 0] :
     k \in {"none", "junk", "surrogate", "unpad", "corrupt_salt", "corrupt_hash"}}
  \cup {[kind |-> "cut", len |-> n] : n \in CutLens}

\* The record string r after the alteration t.
TamperedRecord(r, t) ==
  LET at == (4 * SaltLen) \div 3 + 4
      bytes == b64decode(r).value
  IN CASE t.kind = "none" -> r
       [] t.kind = "junk" -> <<r[1]>> \o Junk \o Tail(r)
       [] t.kind = "surrogate" -> <<r[1]>> \o Unencodable \o Tail(r)
       [] t.kind = "unpad" -> SelectSeq(r, LAMBDA c : c # PadChar)
       [] t.kind = "corrupt_salt" -> <<NextB64Char(r[1])>> \o Tail(r)
       [] t.kind = "corrupt_hash" ->
            [i \in 1..Len(r) |-> IF i = at THEN NextB64Char(r[i]) ELSE r[i]]
       [] t.kind = "cut" ->
            b64encode([i \in 1..t.len |-> IF i <= Len(bytes) THEN bytes[i] ELSE 0])

\* verify_password is called with any password and a stored record (the
\* latest one altered or not), or a string that never was a record.
VerifyInputs ==
  {[password |-> p, of |-> n, tamper |-> [kind |-> "none", len |-> 0],
    hashed_password |-> hashed[n].out.value] :
     p \in Passwords \cup {Unencodable}, n \in 1..Len(hashed)}
  \cup {[password |-> p, of |-> n, tamper |-> t,
         hashed_password |-> TamperedRecord(hashed[n].out.value, t)] :
          p \in Passwords \cup {Unencodable}, n \in {Len(hashed)} \ {0},
          t \in RecordTampers}
  \cup {[password |-> p, of |-> 0, tamper |-> [kind |-> "none", len |-> 0],
         hashed_password |-> NotValidBase64] : p \in Passwords}

\* verify_password reaches its except clause.
verify_password_raises(password, hashed_password) ==
  \/ ~Utf8Encode(password).ok
  \/ ~Then(Utf8Encode(hashed_password), b64decode).ok

HashPassword ==
  /\ checked = NoCall
  /\ Len(hashed) < MaxRecords
  /\ \E p \in (IF hashed = <<>> THEN Passwords ELSE {hashed[1].password}),
        rnd \in Draws \ {hashed[n].rnd : n \in 1..Len(hashed)} :
       hashed' = Append(hashed, [password |-> p, rnd |-> rnd,
                                 out |-> hash_password(p, rnd)])
  /\ logged' = <<>>
  /\ UNCHANGED <<key_size, checked>>
  /\ UNCHANGED outside_password

VerifyPassword ==
  /\ checked = NoCall
  /\ \E in \in VerifyInputs :
       /\ checked' = [password |-> in.password, of |-> in.of, tamper |-> in.tamper,
                      hashed_password |-> in.hashed_password,
                      out |-> verify_password(in.password, in.hashed_password)]
       /\ logged' = IF verify_password_raises(in.password, in.hashed_password)
                    THEN <<"Password verification error">> ELSE <<>>
  /\ UNCHANGED <<key_size, hashed>>
  /\ UNCHANGED outside_password

\* The caller has acted on the result of the check.
Checked ==
  /\ checked # NoCall
  /\ checked' = NoCall
  /\ logged' = <<>>
  /\ UNCHANGED <<key_size, hashed>>
  /\ UNCHANGED outside_password

PasswordNext == HashPassword \/ VerifyPassword \/ Checked

PasswordSpec == Init /\ [][PasswordNext]_vars

----------------------------------------------------------------------------
\* Request threads sharing the one CryptoUtils instance of the application.
\* A thread invokes a method, and completes it after any number of steps of
\* the other threads.

Threads == 1..MaxThreads

\* A ciphertext and a password record that exist when the threads start.
StoredCiphertext == encrypt_message(HelloWorld, PublicPem(1, 2048), 5, 0).value
StoredRecord == hash_password(<<97>>, 45).value

\* The calls a thread makes: method, arguments, and the draws of the
\* random source the call consumes.
Calls ==
  {[op |-> "generate_key_pair", id |-> 2, primitive_fails |-> f] : f \in BOOLEAN}
  \cup {[op |-> "encrypt_message", message |-> msg, public_key_pem |-> pem, rnd |-> 140] :
          msg \in {HelloWorld, [i \in 1..max_chunk_size |-> 97] \o <<233>>},
          pem \in {PublicPem(1, 2048)}}
  \cup {[op |-> "encrypt_message", message |-> HelloWorld,
         public_key_pem |-> GarbagePem, rnd |-> 140]}
  \cup {[op |-> "decrypt_message", encrypted_message |-> StoredCiphertext,
         private_key_pem |-> pem] :
          pem \in {PrivatePem(1, 2048), GarbagePem}}
  \cup {[op |-> "hash_password", password |-> <<97>>, rnd |-> 85]}
  \cup {[op |-> "verify_password", password |-> <<97>>, hashed_password |-> r] :
          r \in {StoredRecord, NotValidBase64}}

\* What the method returns or raises, computed on the instance as it is.
Outcome(call) ==
  CASE call.op = "generate_key_pair" ->
         generate_key_pair(call.id, call.primitive_fails)
    [] call.op = "encrypt_message" ->
         encrypt_message(call.message, call.public_key_pem, call.rnd, 0)
    [] call.op = "decrypt_message" ->
         decrypt_message(call.encrypted_message, call.private_key_pem)
    [] call.op = "hash_password" -> hash_password(call.password, call.rnd)
    [] call.op = "verify_password" ->
         verify_password(call.password, call.hashed_password)

\* The records the call writes with logging.error.
CallLogged(call, out) ==
  CASE call.op = "generate_key_pair" -> Logged("Key generation error", out)
    [] call.op = "encrypt_message" -> Logged("Encryption error", out)
    [] call.op = "decrypt_message" -> Logged("Decryption error", out)
    [] call.op = "hash_password" -> <<>>
    [] call.op = "verify_password" ->
         IF verify_password_raises(call.password, call.hashed_password)
         THEN <<"Password verification error">> ELSE <<>>

\* Mutant: generate_key_pair keeps a size of its own in self.key_size.
InstanceAfterResize(call) ==
  IF call.op = "generate_key_pair" THEN 1024 ELSE key_size

\* self.key_size after the call: no method assigns to an attribute of self.
InstanceAfter(call) == key_size

Idle == [pc |-> "idle"]

Invoke(t) ==
  /\ threads[t].pc = "idle"
  /\ \E call \in Calls : threads' = [threads EXCEPT ![t] = [pc |-> "running", call |-> call]]
  /\ UNCHANGED <<key_size, logged>>
  /\ UNCHANGED outside_threads

Complete(t) ==
  /\ threads[t].pc = "running"
  /\ threads' = [threads EXCEPT ![t] = [pc |-> "done", call |-> threads[t].call,
                                        out |-> Outcome(threads[t].call)]]
  /\ key_size' = InstanceAfter(threads[t].call)
  /\ logged' = CallLogged(threads[t].call, threads'[t].out)
  /\ UNCHANGED outside_threads

\* The request of thread t ends.
Release(t) ==
  /\ threads[t].pc = "done"
  /\ threads' = [threads EXCEPT ![t] = Idle]
  /\ UNCHANGED <<key_size, logged>>
  /\ UNCHANGED outside_threads

ConcurrentNext == \E t \in Threads : Invoke(t) \/ Complete(t) \/ Release(t)

ConcurrentSpec == Init /\ [][ConcurrentNext]_vars

----------------------------------------------------------------------------
\* The message store and messages_view (src/app.py; src/database_app.py
\* differs in how a row is rendered).  User u holds key pair u.  A stored
\* ciphertext may be damaged in storage before it is read.

Users == {1, 2}
Texts == {HelloWorld, [i \in 1..max_chunk_size |-> 97] \o <<233>>}
Damages == {[kind |-> "corrupt", seg |-> 1]}

\* Python's None and a value that is not None.
None == <<>>
Some(v) == <<v>>

\* Mutant: the handler calls decrypt_message outside any try block.
ViewDecryptUnguarded(encrypted_content, user_private_key) ==
  Then(decrypt_message(encrypted_content, user_private_key),
       LAMBDA text : Return([decrypted_content |-> Some(text),
                             decryption_error |-> None]))

\* The try block of messages_view around decrypt_message: the fields of
\* message_info it sets, and no exception leaves it.
ViewDecrypt(encrypted_content, user_private_key) ==
  Let(decrypt_message(encrypted_content, user_private_key), LAMBDA text :
    IF text.ok
    THEN Return([decrypted_content |-> Some(text.value), decryption_error |-> None])
    ELSE Return([decrypted_content |-> None, decryption_error |-> Some(text.error)]))

\* The ids of the messages user_id sent or received, in the order of the store.
MessagesOf(user_id) ==
  SelectSeq([i \in 1..Len(messages) |-> i],
            LAMBDA i : \/ messages[i].recipient_id = user_id
                       \/ messages[i].sender_id = user_id)

\* messages_view for the logged-in user_id: one message_info per message of
\* the user, most recent first; an exception that leaves the loop ends the
\* request with a server error.
messages_view(user_id) ==
  Let(MessagesOf(user_id), LAMBDA ids :
  Let(List([n \in 1..Len(ids) |->
              IF messages[ids[n]].recipient_id = user_id
              THEN ViewDecrypt(messages[ids[n]].encrypted_content,
                               PrivatePem(user_id, key_size))
              ELSE Return([decrypted_content |-> None, decryption_error |-> None])]),
      LAMBDA rows :
        IF \E n \in 1..Len(rows) : ~rows[n].ok
        THEN Raise("500 Internal Server Error")
        ELSE Return([n \in 1..Len(ids) |->
               LET i == ids[Len(ids) + 1 - n]
                   row == rows[Len(ids) + 1 - n].value
               IN [id |-> i,
                   is_sent |-> messages[i].sender_id = user_id,
                   decrypted_content |-> row.decrypted_content,
                   decryption_error |-> row.decryption_error]])))

\* '[Error decrypting message]'
ErrorDecrypting == <<91, 69, 114, 114, 111, 114, 32, 100, 101, 99, 114, 121, 112,
                     116, 105, 110, 103, 32, 109, 101, 115, 115, 97, 103, 101, 93>>

\* messages_view of src/database_app.py: the received messages, most recent
\* first, each with its text or the error text, and the sent messages.
db_messages_view(user_id) ==
  Let(SelectSeq([i \in 1..Len(messages) |-> Len(messages) + 1 - i],
                LAMBDA i : messages[i].recipient_id = user_id),
      LAMBDA received_messages :
  Let(SelectSeq([i \in 1..Len(messages) |-> Len(messages) + 1 - i],
                LAMBDA i : messages[i].sender_id = user_id),
      LAMBDA sent_messages :
  Let(List([n \in 1..Len(received_messages) |->
              Let(decrypt_message(messages[received_messages[n]].encrypted_content,
                                  PrivatePem(user_id, key_size)),
                  LAMBDA decrypted_content :
                    [message |-> received_messages[n],
                     decrypted_content |-> IF decrypted_content.ok
                                           THEN decrypted_content.value
                                           ELSE ErrorDecrypting])]),
      LAMBDA decrypted_received :
        Return([received_messages |-> decrypted_received,
                sent_messages |-> sent_messages]))))

\* The records a messages_view request writes: decrypt_message and the
\* handler each log a failed decryption.
ViewLogged(user_id) ==
  Flatten([i \in 1..Len(messages) |->
             IF /\ messages[i].recipient_id = user_id
                /\ ~decrypt_message(messages[i].encrypted_content,
                                    PrivatePem(user_id, key_size)).ok
             THEN <<"Decryption error", "Message decryption error">>
             ELSE <<>>], 1, Len(messages))

\* send_message: the text is encrypted with the recipient's public key and
\* stored; content keeps the text that was submitted.
SendMessage ==
  /\ Len(messages) < MaxMessages
  /\ \E sender_id \in Users, message_content \in Texts :
     \E recipient_id \in Users \ {sender_id} :
       LET encrypted_content ==
             encrypt_message(message_content, PublicPem(recipient_id, key_size),
                             5 + 10 * Len(messages), 0)
       IN /\ messages' = IF encrypted_content.ok
                         THEN Append(messages,
                                [sender_id |-> sender_id,
                                 recipient_id |-> recipient_id,
                                 encrypted_content |-> encrypted_content.value,
                                 content |-> message_content,
                                 damaged |-> FALSE])
                         ELSE messages
          /\ logged' = Logged("Message encryption error", encrypted_content)
  /\ view' = NoCall
  /\ UNCHANGED key_size
  /\ UNCHANGED outside_store

\* The storage returns a stored ciphertext altered.
DamageStored ==
  /\ \E i \in 1..Len(messages), t \in Damages :
       /\ ~messages[i].damaged
       /\ messages' = [messages EXCEPT
                         ![i].encrypted_content = Tampered(@, t),
                         ![i].damaged = TRUE]
  /\ view' = NoCall
  /\ logged' = <<>>
  /\ UNCHANGED key_size
  /\ UNCHANGED outside_store

MessagesView ==
  /\ \E user_id \in Users :
       /\ view' = [user_id |-> user_id, out |-> messages_view(user_id),
                   db_out |-> db_messages_view(user_id)]
       /\ logged' = ViewLogged(user_id)
  /\ UNCHANGED <<key_size, messages>>
  /\ UNCHANGED outside_store

StoreNext == SendMessage \/ DamageStored \/ MessagesView

StoreSpec == Init /\ [][StoreNext]_vars

----------------------------------------------------------------------------
\* The in-memory application (src/app.py): the users and messages maps, whose
\* keys are user_1, user_2, ... and msg_1, msg_2, ..., so that entry n of the
\* sequence is the value under key n.

MaxUsers == 2     \* registrations begun while the users map is shorter

\* str.strip() removes the white space at both ends; str.lower() (code
\* points below 256).
Whitespace == {9, 10, 11, 12, 13, 28, 29, 30, 31, 32, 133, 160}

strip(s) ==
  LET kept == {i \in 1..Len(s) : s[i] \notin Whitespace}
  IN IF kept = {} THEN <<>>
     ELSE SubSeq(s, CHOOSE i \in kept : \A j \in kept : i <= j,
                    CHOOSE i \in kept : \A j \in kept : j <= i)

lower(s) ==
  [i \in 1..Len(s) |->
     IF s[i] \in 65..90 \/ (s[i] \in 192..222 /\ s[i] # 215) THEN s[i] + 32 ELSE s[i]]

\* What a browser submits: 'a', ' A ', 'b'; 'secret', 'abc'.
Emails == {<<97>>, <<32, 65, 32>>, <<98>>}
Secret == <<115, 101, 99, 114, 101, 116>>
Abc == <<97, 98, 99>>

RegisterForms ==
  {[email |-> e, password |-> Secret, confirm_password |-> Secret] : e \in Emails}
  \cup {[email |-> <<32>>, password |-> Secret, confirm_password |-> Secret],
        [email |-> <<97>>, password |-> <<>>, confirm_password |-> <<>>],
        [email |-> <<97>>, password |-> Secret, confirm_password |-> Abc],
        [email |-> <<97>>, password |-> Abc, confirm_password |-> Abc]}

SendForms ==
  {[recipient_email |-> e, message |-> HelloWorld \o <<32>>] : e \in Emails}
  \cup {[recipient_email |-> <<99>>, message |-> HelloWorld],
        [recipient_email |-> <<97>>, message |-> <<32, 10>>]}

\* register: the form is read and validated; the email it goes on with, or
\* the message it flashes.
RegisterValidation(form) ==
  LET email == lower(strip(form.email))
  IN IF email = <<>> \/ form.password = <<>>
     THEN Raise("Email and password are required.")
     ELSE IF form.password # form.confirm_password
     THEN Raise("Passwords do not match.")
     ELSE IF Len(form.password) < 6
     THEN Raise("Password must be at least 6 characters long.")
     ELSE Return(email)

\* register: the loop over users.values() that looks for the email.
EmailTaken(email) == \E n \in 1..Len(users) : users[n].email = email

\* login, send_message: the loop over users.items() that stops at the first
\* entry with the email; None when there is none.
FindUser(email) ==
  LET found == {n \in 1..Len(users) : users[n].email = email}
  IN IF found = {} THEN None
     ELSE Some(CHOOSE n \in found : \A m \in found : n <= m)

\* register: the entry built for users[user_id]; hash_password may raise.
NewUser(email, password, key_pair, rnd) ==
  Then(hash_password(password, rnd), LAMBDA password_hash :
    Return([email |-> email,
            password_hash |-> password_hash,
            public_key |-> key_pair[1],
            private_key |-> key_pair[2],
            verified |-> TRUE]))

\* store[f"..._{n}"] = entry: a new key when n is one past the length, else
\* the value under the key is replaced.
Put(store, n, entry) ==
  IF n = Len(store) + 1 THEN Append(store, entry) ELSE [store EXCEPT ![n] = entry]

\* send_message: the form is read and validated, and the recipient looked
\* up; the recipient it goes on with, or the message it flashes.
SendValidation(form, user_id) ==
  LET recipient_email == lower(strip(form.recipient_email))
      message_content == strip(form.message)
      recipient_id == FindUser(recipient_email)
  IN IF recipient_email = <<>> \/ message_content = <<>>
     THEN Raise("Recipient email and message content are required.")
     ELSE IF recipient_id = None
     THEN Raise("Recipient not found.")
     ELSE IF recipient_id = Some(user_id)
     THEN Raise("You cannot send a message to yourself.")
     ELSE Return(recipient_id[1])

\* send_message: the entry built for messages[message_id]; content keeps the
\* text that was encrypted.
NewMessage(user_id, recipient_id, encrypted_content, message_content) ==
  [sender_id |-> user_id,
   recipient_id |-> recipient_id,
   encrypted_content |-> encrypted_content,
   content |-> message_content]

----------------------------------------------------------------------------
\* The handlers of src/app.py, each served as a whole, for one browser.  The
\* session is the browser's cookie: its user_id entry, None when there is
\* none.  A flashed message and the page or redirect are the response.

LoginForms ==
  {[email |-> e, password |-> p] : e \in Emails, p \in {Secret, Secret \o <<0>>, Abc}}
  \cup {[email |-> <<32>>, password |-> Secret],
        [email |-> <<97>>, password |-> <<>>]}

NoForm == <<>>
NoRequest == [handler |-> "none"]

\* What a handler does: the maps and the session after it, what it logged,
\* and its response; body tells whether the function under require_login ran.
Rendered(template, flash) ==
  [users |-> users, messages |-> messages, session |-> session, logged |-> <<>>,
   status |-> "render", target |-> template, flash |-> flash, body |-> TRUE,
   out |-> None]

Redirected(endpoint, flash) ==
  [users |-> users, messages |-> messages, session |-> session, logged |-> <<>>,
   status |-> "redirect", target |-> endpoint, flash |-> flash, body |-> TRUE,
   out |-> None]

\* Mutant: the session's user_id is not looked up in users.
get_current_user_of_session == IF session # None THEN Some(session[1]) ELSE None

get_current_user ==
  IF session # None /\ session[1] \in 1..Len(users)
  THEN Some(users[session[1]])
  ELSE None

\* require_login: the decorated function runs for a current user only.
require_login(f) ==
  IF get_current_user = None
  THEN [Redirected("login", "Please log in to access this page.")
          EXCEPT !.body = FALSE]
  ELSE f

\* register (POST).  The key pair and the salt drawn are those of the n-th user.
register(form, primitive_fails) ==
  LET email == RegisterValidation(form)
      n == Len(users) + 1
      key_pair == generate_key_pair(n, primitive_fails)
      entry == Then(key_pair, LAMBDA pair :
                 NewUser(email.value, form.password, pair, 40 * n + 5))
  IN IF ~email.ok
     THEN Rendered("register.html", email.error)
     ELSE IF EmailTaken(email.value)
     THEN Redirected("login", "Email already registered. Please log in.")
     ELSE IF ~entry.ok
     THEN [Rendered("register.html", "Registration failed. Please try again.")
             EXCEPT !.logged = IF key_pair.ok
                               THEN <<"Registration error">>
                               ELSE <<"Key generation error", "Registration error">>]
     ELSE [Redirected("dashboard", "Registration successful!")
             EXCEPT !.users = Put(users, n, entry.value),
                    !.session = Some(n)]

\* Mutant: the password is not verified.
LoginAcceptsAnyPassword(user_id, password) == user_id # None

\* login: user_id and crypto_utils.verify_password(password, ...)
LoginAccepts(user_id, password) ==
  /\ user_id # None
  /\ verify_password(password, users[user_id[1]].password_hash).value

\* login (POST)
login(form) ==
  LET email == lower(strip(form.email))
      user_id == FindUser(email)
  IN IF email = <<>> \/ form.password = <<>>
     THEN Rendered("login.html", "Email and password are required.")
     ELSE IF LoginAccepts(user_id, form.password)
     THEN [Redirected("dashboard", "Login successful!") EXCEPT !.session = user_id]
     ELSE Rendered("login.html", "Invalid email or password.")

logout == [Redirected("index", "You have been logged out.") EXCEPT !.session = None]

\* The ten most recent messages of the user, most recent first.
dashboard ==
  LET ids == MessagesOf(session[1])
  IN [Rendered("dashboard.html", None)
        EXCEPT !.out = Some([n \in 1..Min(10, Len(ids)) |-> ids[Len(ids) + 1 - n]])]

\* Mutant: the text is encrypted with the sender's public key.
SenderPublicKey(recipient_id) == users[session[1]].public_key

\* send_message: recipient_public_key
RecipientPublicKey(recipient_id) == users[recipient_id].public_key

\* send_message (POST)
send_message(form) ==
  LET user_id == session[1]
      message_content == strip(form.message)
      recipient_id == SendValidation(form, user_id)
      encrypted_content ==
        Then(recipient_id, LAMBDA id :
          encrypt_message(message_content, RecipientPublicKey(id),
                          5 + 10 * Len(messages), 0))
  IN IF ~recipient_id.ok
     THEN Rendered("send_message.html", recipient_id.error)
     ELSE IF ~encrypted_content.ok
     THEN [Rendered("send_message.html", "Failed to send message. Please try again.")
             EXCEPT !.logged = <<"Encryption error", "Message encryption error">>]
     ELSE [Redirected("messages_view", "Message sent successfully!")
             EXCEPT !.messages =
               Put(messages, Len(messages) + 1,
                   NewMessage(user_id, recipient_id.value,
                              encrypted_content.value, message_content))]

\* messages_view under require_login; the private key of user n is that of
\* key pair n.
messages_page ==
  LET user_messages == messages_view(session[1])
  IN IF user_messages.ok
     THEN [Rendered("messages.html", None)
             EXCEPT !.out = Some(user_messages.value),
                    !.logged = ViewLogged(session[1])]
     ELSE [Rendered("500.html", None) EXCEPT !.logged = ViewLogged(session[1])]

\* sorted(...): a before b as str values.
StrBefore(a, b) ==
  \E k \in 1..(Min(Len(a), Len(b)) + 1) :
    /\ \A j \in 1..(k - 1) : a[j] = b[j]
    /\ IF k <= Len(a) /\ k <= Len(b) THEN a[k] < b[k] ELSE k > Len(a) /\ k <= Len(b)

\* users_list: the other users, sorted by email.
users_list ==
  LET others == SelectSeq([n \in 1..Len(users) |-> n], LAMBDA n : n # session[1])
  IN [Rendered("users.html", None)
        EXCEPT !.out = Some(SortSeq(others,
                         LAMBDA m, n : StrBefore(users[m].email, users[n].email)))]

\* The variables the browser's requests leave alone.
outside_browser ==
  <<key_size, keys, keygen, pc, message, public_key_pem, seed, fail_at, enc,
    tamper, encrypted_message, private_key_pem, dec, again, hashed, checked,
    threads, view, requests, successes, codes, issued, now, read_at>>

\* A request is served: the handler's effects, and the response the browser
\* gets.  changed tells whether the users or the messages map was written.
Serve(handler, form, effects) ==
  /\ users' = effects.users
  /\ messages' = effects.messages
  /\ session' = effects.session
  /\ logged' = effects.logged
  /\ response' = [handler |-> handler,
                  form |-> form,
                  session_before |-> session,
                  status |-> effects.status,
                  target |-> effects.target,
                  flash |-> effects.flash,
                  body |-> effects.body,
                  out |-> effects.out,
                  changed |-> <<effects.users, effects.messages>> # <<users, messages>>]
  /\ UNCHANGED outside_browser

PostRegister ==
  \E form \in RegisterForms, primitive_fails \in BOOLEAN :
    Serve("register", form, register(form, primitive_fails))

PostLogin == \E form \in LoginForms : Serve("login", form, login(form))

GetLogout == Serve("logout", NoForm, logout)

GetDashboard == Serve("dashboard", NoForm, require_login(dashboard))

PostSendMessage ==
  /\ Len(messages) < MaxMessages
  /\ \E form \in SendForms \cup {[recipient_email |-> <<97>>, message |-> Unencodable]} :
       Serve("send_message", form, require_login(send_message(form)))

GetMessages == Serve("messages_view", NoForm, require_login(messages_page))

GetUsers == Serve("users_list", NoForm, require_login(users_list))

\* The process is started again: the maps are empty, and the browser still
\* holds its cookie.
Restart ==
  /\ users # <<>>
  /\ users' = <<>>
  /\ messages' = <<>>
  /\ response' = NoRequest
  /\ logged' = <<>>
  /\ UNCHANGED session
  /\ UNCHANGED outside_browser

AppNext ==
  \/ PostRegister \/ PostLogin \/ GetLogout \/ GetDashboard \/ PostSendMessage
  \/ GetMessages \/ GetUsers \/ Restart

AppSpec == Init /\ [][AppNext]_vars

----------------------------------------------------------------------------
\* Concurrent requests.  app.run serves each request on a thread of its own,
\* and register and send_message take no lock: between the statements that
\* read the shared maps and the statement that writes them, the other
\* threads run.  The session of a request is the one the browser sent.  The
\* requests here are those whose key generation, hashing and encryption
\* succeed.

Idles == [at |-> "idle"]

\* The requests of a handler that are in progress.
InProgress(handler) ==
  Cardinality({t \in DOMAIN requests :
                 requests[t] # Idles /\ requests[t].handler = handler})

\* The variables the request threads of the application leave alone.
outside_requests ==
  <<key_size, keys, keygen, pc, message, public_key_pem, seed, fail_at, enc,
    tamper, encrypted_message, private_key_pem, dec, again, hashed, checked,
    threads, view, session, response, codes, issued, now, read_at>>

\* register, up to the key pair: validation, the email check, generate_key_pair.
RegisterChecks(t) ==
  /\ requests[t] = Idles
  /\ Len(users) + InProgress("register") < MaxUsers
  /\ \E form \in RegisterForms :
       LET email == RegisterValidation(form)
           key_pair == generate_key_pair(t + MaxThreads * Len(users), FALSE)
       IN IF ~email.ok \/ EmailTaken(email.value)
          THEN /\ logged' = <<>>
               /\ UNCHANGED requests
          ELSE /\ logged' = <<>>
               /\ requests' = [requests EXCEPT ![t] =
                    [at |-> "register_keys", handler |-> "register",
                     email |-> email.value,
                     password |-> form.password,
                     key_pair |-> key_pair.value]]
  /\ UNCHANGED <<users, messages, successes>>
  /\ UNCHANGED outside_requests

\* register: user_id = f"user_{len(users) + 1}", and the entry is built.
RegisterUserId(t) ==
  /\ requests[t].at = "register_keys"
  /\ LET r == requests[t]
         entry == NewUser(r.email, r.password, r.key_pair, 40 * t + 5)
     IN IF entry.ok
        THEN /\ requests' = [requests EXCEPT ![t] =
                  [at |-> "register_user_id", handler |-> "register",
                   user_id |-> Len(users) + 1,
                   entry |-> entry.value]]
             /\ logged' = <<>>
        ELSE /\ requests' = [requests EXCEPT ![t] = Idles]
             /\ logged' = <<"Registration error">>
  /\ UNCHANGED <<users, messages, successes>>
  /\ UNCHANGED outside_requests

\* register: users[user_id] = {...}, and the request reports success.
RegisterStores(t) ==
  /\ requests[t].at = "register_user_id"
  /\ users' = Put(users, requests[t].user_id, requests[t].entry)
  /\ successes' = successes \cup {[handler |-> "register",
                                    id |-> requests[t].user_id,
                                    entry |-> requests[t].entry]}
  /\ requests' = [requests EXCEPT ![t] = Idles]
  /\ logged' = <<>>
  /\ UNCHANGED messages
  /\ UNCHANGED outside_requests

\* send_message of a logged-in user, up to the ciphertext: validation, the
\* recipient, encrypt_message.
SendChecks(t) ==
  /\ requests[t] = Idles
  /\ Len(messages) + InProgress("send_message") < MaxMessages
  /\ \E user_id \in 1..Len(users), form \in SendForms :
       LET recipient_id == SendValidation(form, user_id)
       IN IF ~recipient_id.ok
          THEN /\ logged' = <<>>
               /\ UNCHANGED requests
          ELSE LET encrypted_content ==
                     encrypt_message(strip(form.message),
                                     users[recipient_id.value].public_key,
                                     5 + 10 * t, 0)
               IN IF ~encrypted_content.ok
                  THEN /\ logged' = <<"Encryption error", "Message encryption error">>
                       /\ UNCHANGED requests
                  ELSE /\ logged' = <<>>
                       /\ requests' = [requests EXCEPT ![t] =
                            [at |-> "send_encrypted", handler |-> "send_message",
                             entry |-> NewMessage(user_id, recipient_id.value,
                                                  encrypted_content.value,
                                                  strip(form.message))]]
  /\ UNCHANGED <<users, messages, successes>>
  /\ UNCHANGED outside_requests

\* send_message: message_id = f"msg_{len(messages) + 1}".
SendMessageId(t) ==
  /\ requests[t].at = "send_encrypted"
  /\ requests' = [requests EXCEPT ![t] =
       [at |-> "send_message_id", handler |-> "send_message",
        message_id |-> Len(messages) + 1,
        entry |-> requests[t].entry]]
  /\ logged' = <<>>
  /\ UNCHANGED <<users, messages, successes>>
  /\ UNCHANGED outside_requests

\* send_message: messages[message_id] = {...}, and the request reports success.
SendStores(t) ==
  /\ requests[t].at = "send_message_id"
  /\ messages' = Put(messages, requests[t].message_id, requests[t].entry)
  /\ successes' = successes \cup {[handler |-> "send_message",
                                    id |-> requests[t].message_id,
                                    entry |-> requests[t].entry]}
  /\ requests' = [requests EXCEPT ![t] = Idles]
  /\ logged' = <<>>
  /\ UNCHANGED users
  /\ UNCHANGED outside_requests

RaceNext ==
  \E t \in Threads :
    \/ RegisterChecks(t) \/ RegisterUserId(t) \/ RegisterStores(t)
    \/ SendChecks(t) \/ SendMessageId(t) \/ SendStores(t)

RaceSpec == Init /\ [][RaceNext]_vars

----------------------------------------------------------------------------
\* IdentityVerifier (src/identity_verifier.py) on one verification_codes_storage:
\* codes holds the entry of each email that has one.  issued lists the codes
\* generated, in order, and successes the checks that returned True.

MaxCodes == 2     \* codes generated
MaxTime == 31     \* minutes on the clock

code_expiry_minutes == 15

\* ''.join(random.choices(string.digits, k=6)) for the draw n.
Digits(n) == [i \in 1..6 |-> 48 + ((n \div (10 ^ (6 - i))) % 10)]

CodeDraws == {7, 123456}
SubmittedCodes ==
  {Digits(n) : n \in CodeDraws}
  \cup {<<32>> \o Digits(7) \o <<10>>, <<55>>}
Addresses == {<<97>>, <<98>>}

\* verification_codes_storage[email], None when the email is no key.
Stored(email) ==
  IF \E c \in codes : c.email = email
  THEN Some(CHOOSE c \in codes : c.email = email)
  ELSE None

\* del verification_codes_storage[email]
Deleted(email) == {c \in codes : c.email # email}

\* send_verification_email: the entry is stored before the mail is sent, so
\* it stays when mail.send raises.
send_verification_email(email, draw, mail_fails) ==
  LET code == Digits(draw)
      expires_at == now + code_expiry_minutes
  IN [codes |-> Deleted(email) \cup {[email |-> email, code |-> code,
                                     expires_at |-> expires_at,
                                     issue |-> Len(issued) + 1]},
      out |-> ~mail_fails,
      logged |-> IF mail_fails THEN <<"Failed to send verification email">> ELSE <<>>]

\* Mutant: a code that matched stays in the storage.
verify_code_keeps(email, submitted_code) ==
  LET stored_data == Stored(email)
  IN IF stored_data = None
     THEN [codes |-> codes, out |-> FALSE]
     ELSE IF now > stored_data[1].expires_at
     THEN [codes |-> Deleted(email), out |-> FALSE]
     ELSE [codes |-> codes, out |-> strip(submitted_code) = stored_data[1].code]

verify_code(email, submitted_code) ==
  LET stored_data == Stored(email)
  IN IF stored_data = None
     THEN [codes |-> codes, out |-> FALSE]
     ELSE IF now > stored_data[1].expires_at
     THEN [codes |-> Deleted(email), out |-> FALSE]
     ELSE IF strip(submitted_code) = stored_data[1].code
     THEN [codes |-> Deleted(email), out |-> TRUE]
     ELSE [codes |-> codes, out |-> FALSE]

cleanup_expired_codes == {c \in codes : ~(now > c.expires_at)}

\* The variables the verifier's caller leaves alone.
outside_verifier ==
  <<key_size, keys, keygen, pc, message, public_key_pem, seed, fail_at, enc,
    tamper, encrypted_message, private_key_pem, dec, again, hashed, checked,
    threads, messages, view, users, session, requests, read_at>>

SendVerificationEmail ==
  /\ Len(issued) < MaxCodes
  /\ \E email \in Addresses, draw \in CodeDraws, mail_fails \in BOOLEAN :
       LET sent == send_verification_email(email, draw, mail_fails)
       IN /\ codes' = sent.codes
          /\ issued' = Append(issued, [email |-> email, code |-> Digits(draw)])
          /\ logged' = sent.logged
          /\ response' = [handler |-> "send_verification_email",
                          email |-> email, at |-> now, out |-> sent.out]
  /\ UNCHANGED <<now, successes>>
  /\ UNCHANGED outside_verifier

\* verify_code; a check that returns True is counted for the code it used up.
VerifyCode ==
  /\ \E email \in Addresses, submitted_code \in SubmittedCodes :
       LET stored_data == Stored(email)
           verified == verify_code(email, submitted_code)
       IN /\ codes' = verified.codes
          /\ successes' =
               IF verified.out
               THEN successes \cup
                      {[handler |-> "verify_code",
                        id |-> stored_data[1].issue,
                        nth |-> 1 + Cardinality({s \in successes :
                                                   s.id = stored_data[1].issue})]}
               ELSE successes
          /\ response' = [handler |-> "verify_code",
                          email |-> email,
                          submitted_code |-> submitted_code,
                          at |-> now,
                          stored_before |-> stored_data,
                          out |-> verified.out]
  /\ logged' = <<>>
  /\ UNCHANGED <<now, issued>>
  /\ UNCHANGED outside_verifier

CleanupExpiredCodes ==
  /\ codes' = cleanup_expired_codes
  /\ codes' # codes
  /\ response' = [handler |-> "cleanup_expired_codes", at |-> now]
  /\ logged' = <<>>
  /\ UNCHANGED <<now, issued, successes>>
  /\ UNCHANGED outside_verifier

\* datetime.now() is later by some minutes.
Pass(minutes) ==
  /\ now + minutes <= MaxTime
  /\ now' = now + minutes
  /\ UNCHANGED <<codes, issued, successes, response, logged>>
  /\ UNCHANGED outside_verifier

\* Time passes: the life of a code, or a minute more.
Tick == \E minutes \in {code_expiry_minutes, code_expiry_minutes + 1} : Pass(minutes)

VerifierNext == SendVerificationEmail \/ VerifyCode \/ CleanupExpiredCodes \/ Tick

VerifierSpec == Init /\ [][VerifierNext]_vars

----------------------------------------------------------------------------
\* mark_message_read (src/database_app.py) and Message.mark_as_read
\* (src/models.py).  Row i of the messages table is messages[i]; read_at holds
\* the read_at column of the rows where it is not NULL.  successes lists the
\* writes of the column.

\* message.read_at, None while it is NULL.
ReadAt(message_id) ==
  IF \E r \in read_at : r.id = message_id
  THEN Some((CHOOSE r \in read_at : r.id = message_id).read_at)
  ELSE None

\* Mutant: read_at is written whether or not it is set.
mark_as_read_again(message_id) ==
  {r \in read_at : r.id # message_id} \cup {[id |-> message_id, read_at |-> now]}

\* Message.mark_as_read: the read_at column after it.
mark_as_read(message_id) ==
  IF ReadAt(message_id) = None
  THEN read_at \cup {[id |-> message_id, read_at |-> now]}
  ELSE read_at

\* Message.query.filter_by(id=message_id, recipient_id=current_user.id).first()
MessageFor(message_id, current_user) ==
  IF /\ message_id \in 1..Len(messages)
     /\ messages[message_id].recipient_id = current_user
  THEN Some(message_id)
  ELSE None

\* mark_message_read of the logged-in current_user: the column after it and
\* the status of the response.
mark_message_read(message_id, current_user) ==
  IF MessageFor(message_id, current_user) # None
  THEN [read_at |-> mark_as_read(message_id), status |-> 200, success |-> TRUE]
  ELSE [read_at |-> read_at, status |-> 404, success |-> FALSE]

\* A mark-read request of a logged-in user.  The response keeps the
\* recipient the row had, None for an id that is no row, and the messages
\* whose read_at the request changed.
MarkMessageRead ==
  /\ \E current_user \in Users, message_id \in 1..(MaxMessages + 1) :
       LET marked == mark_message_read(message_id, current_user)
       IN /\ read_at' = marked.read_at
          /\ successes' =
               IF marked.read_at # read_at
               THEN successes \cup
                      {[handler |-> "mark_as_read",
                        id |-> message_id,
                        read_at |-> now,
                        nth |-> 1 + Cardinality({s \in successes : s.id = message_id})]}
               ELSE successes
          /\ response' = [handler |-> "mark_message_read",
                          current_user |-> current_user,
                          message_id |-> message_id,
                          at |-> now,
                          recipient_id |-> IF message_id \in 1..Len(messages)
                                           THEN Some(messages[message_id].recipient_id)
                                           ELSE None,
                          read_before |-> ReadAt(message_id),
                          changed |-> {i \in 1..Len(messages) :
                                         \/ [id |-> i, read_at |-> now] \in
                                              (marked.read_at \ read_at)
                                         \/ \E r \in read_at : r.id = i /\ r \notin marked.read_at},
                          status |-> marked.status,
                          success |-> marked.success]
  /\ logged' = <<>>
  /\ UNCHANGED <<key_size, keys, keygen, pc, message, public_key_pem, seed, fail_at,
                 enc, tamper, encrypted_message, private_key_pem, dec, again,
                 hashed, checked, threads, messages, view, users, session,
                 requests, codes, issued, now>>

\* Time passes between two requests.
Later == Pass(MaxTime)

ReadNext == SendMessage \/ MarkMessageRead \/ Later

ReadSpec == Init /\ [][ReadNext]_vars

----------------------------------------------------------------------------
\* What the properties below refer to.

EncryptionError == Exception("Failed to encrypt message")
DecryptionError == Exception("Failed to decrypt message")

\* The plaintext bytes of the last encrypt_message call, and their chunks as
\* section 4.2 of the specification cuts them (214 bytes at 2048 bits).
PlainBytes == Utf8Encode(message).value
CeilDiv(a, b) == (a + b - 1) \div b
PlainChunks ==
  LET n == Len(PlainBytes)
      count == IF n = 0 THEN 1 ELSE CeilDiv(n, 214)
  IN [i \in 1..count |-> SubSeq(PlainBytes, 214 * (i - 1) + 1, Min(214 * i, n))]

\* The '|'-delimited segments of the string encrypt_message returned.
Segments == Split(enc.value, Separator)

\* decrypt_message was called with the private key of the encrypting key pair.
MatchingKey == private_key_pem = MatchingPrivatePem(public_key_pem)

\* The chunks a reordered or shortened ciphertext string carries, in order.
CarriedChunks ==
  LET n == Len(PlainChunks)
  IN CASE tamper.kind = "swap" ->
            [i \in 1..n |-> IF i = tamper.seg THEN PlainChunks[i + 1]
                            ELSE IF i = tamper.seg + 1 THEN PlainChunks[i - 1]
                            ELSE PlainChunks[i]]
       [] tamper.kind = "drop" ->
            [i \in 1..(n - 1) |-> IF i < tamper.seg THEN PlainChunks[i]
                                  ELSE PlainChunks[i + 1]]
       [] OTHER -> PlainChunks
CarriedText == Utf8Decode(Flatten(CarriedChunks, 1, Len(CarriedChunks)))

\* C1: decrypting, with the private key of the pair, the string that
\* encrypt_message returned for s under the public key of the pair returns s.
RoundTrip ==
  (pc = "decrypted" /\ tamper.kind = "none" /\ MatchingKey) => dec = Return(message)

\* C1 witness: a plaintext one byte longer than a chunk has gone round.
RoundTripWitness ==
  /\ pc = "decrypted" /\ tamper.kind = "none" /\ MatchingKey
  /\ Len(PlainBytes) = 215
  /\ dec = Return(message)

\* C2: decrypting with the private key of another pair fails with the
\* decryption error and returns no plaintext.
CrossKeyIsolation ==
  (/\ pc = "decrypted" /\ tamper.kind = "none"
   /\ private_key_pem \in PrivatePems /\ ~MatchingKey)
  => dec = DecryptionError

\* C2 witness: a multi-chunk ciphertext was refused under another pair's key.
CrossKeyWitness ==
  /\ pc = "decrypted" /\ tamper.kind = "none"
  /\ private_key_pem \in PrivatePems /\ ~MatchingKey
  /\ Len(Segments) >= 2
  /\ dec = DecryptionError

\* C3: max_chunk_size is 256 - 42 = 214, and the returned string has no '|'
\* exactly when the plaintext has at most 214 bytes.
SingleBlockIffFits ==
  (pc = "encrypted" /\ enc.ok)
  => /\ max_chunk_size = 256 - 42
     /\ max_chunk_size = 214
     /\ (\A i \in 1..Len(enc.value) : enc.value[i] # 124) <=> Len(PlainBytes) <= 214

\* C3 witness: "hello world" was encrypted to one block.
HelloWorldWitness ==
  /\ pc = "encrypted" /\ enc.ok
  /\ message = HelloWorld
  /\ \A i \in 1..Len(enc.value) : enc.value[i] # 124

\* C4: of a plaintext longer than max_chunk_size, segment i of the output
\* decrypts to chunk i; the chunks are contiguous, in order, cover the
\* plaintext once, all but the last have 214 bytes, the last 1 to 214.
ChunkLayout ==
  (pc = "encrypted" /\ enc.ok /\ Len(PlainBytes) > 214)
  => LET key == import_key(MatchingPrivatePem(public_key_pem)).value
         plain == [i \in 1..Len(Segments) |-> DecryptChunk(key, Segments[i])]
         count == Len(plain)
     IN /\ \A i \in 1..count : plain[i].ok
        /\ \A i \in 1..(count - 1) : Len(plain[i].value) = 214
        /\ Len(plain[count].value) \in 1..214
        /\ Flatten([i \in 1..count |-> plain[i].value], 1, count) = PlainBytes

\* C4 witness: a plaintext was cut into two full chunks and a shorter third.
ChunkLayoutWitness ==
  /\ pc = "encrypted" /\ enc.ok
  /\ Len(PlainBytes) > 2 * 214
  /\ Len(Segments) = 3

\* C5 as stated: the number of segments is ceil(len / max_chunk_size), the
\* zero-length plaintext included.
ChunkCountIsCeil ==
  (pc = "encrypted" /\ enc.ok) => Len(Segments) = CeilDiv(Len(PlainBytes), 214)

\* C5 amended: the number of segments is ceil(len / max_chunk_size) for a
\* plaintext of at least one byte, and 1 for the zero-length plaintext.
ChunkCount ==
  (pc = "encrypted" /\ enc.ok)
  => Len(Segments) = IF Len(PlainBytes) = 0 THEN 1 ELSE CeilDiv(Len(PlainBytes), 214)

\* C5 witness: the zero-length plaintext was encrypted to one block.
ChunkCountWitness ==
  /\ pc = "encrypted" /\ enc.ok
  /\ message = <<>>
  /\ Len(Segments) = 1

\* C6: the segments of a string with '|' are decrypted in the order they
\* stand and their bytes concatenated before one UTF-8 decode; a string
\* without '|' is one block; a '|' alone makes the string a chunked one.
DecryptInOrder ==
  /\ (pc = "decrypted" /\ MatchingKey /\ tamper.kind \in {"none", "swap", "drop"})
     => dec = IF CarriedText.ok THEN CarriedText ELSE DecryptionError
  /\ (pc = "decrypted" /\ tamper.kind = "append_sep") => dec = DecryptionError

\* C6 witness: a two-byte character lying across the first chunk boundary
\* came back intact.
StraddlingWitness ==
  /\ pc = "decrypted" /\ MatchingKey /\ tamper.kind = "none"
  /\ Len(message) >= 214 /\ message[214] = 233
  /\ PlainBytes[214] = 195 /\ PlainBytes[215] = 169
  /\ dec = Return(message)

\* C7: when a segment fails to decrypt, at whatever position, or the bytes
\* of the segments are no valid UTF-8, decrypt_message fails as a whole.
DecryptAllOrNothing ==
  (/\ pc = "decrypted"
   /\ MatchingKey
   /\ \/ tamper.kind \in {"corrupt", "truncate", "unpad", "append_sep"}
      \/ tamper.kind \in {"swap", "drop"} /\ ~CarriedText.ok)
  => dec = DecryptionError

\* C7 witness: the second of three segments was corrupt and the call failed.
DecryptAllOrNothingWitness ==
  /\ pc = "decrypted" /\ MatchingKey
  /\ tamper = [kind |-> "corrupt", seg |-> 2]
  /\ Len(Segments) = 3
  /\ dec = DecryptionError

\* C8: when the cipher raises at a chunk, or the public key is no key,
\* encrypt_message fails as a whole and returns no string.
EncryptAllOrNothing ==
  (pc = "encrypted" /\ (fail_at > 0 \/ public_key_pem \notin PublicPems))
  => enc = EncryptionError

\* C8 witness: the cipher raised at the second of three chunks.
EncryptAllOrNothingWitness ==
  /\ pc = "encrypted"
  /\ fail_at = 2 /\ Len(PlainChunks) = 3
  /\ public_key_pem \in PublicPems
  /\ enc = EncryptionError

\* C9: the empty string is rejected with the decryption error under every key.
EmptyInputRejected ==
  (pc = "decrypted" /\ tamper.kind = "empty")
  => encrypted_message = <<>> /\ dec = DecryptionError

\* C9 witness: the empty string was refused under the recipient's private key.
EmptyInputWitness ==
  /\ pc = "decrypted" /\ tamper.kind = "empty" /\ MatchingKey
  /\ encrypted_message = <<>>
  /\ dec = DecryptionError

\* C10: a string with a segment that is no standard-alphabet base64 block
\* (a character outside the alphabet inserted, the padding removed) is
\* refused with the decryption error.
InvalidBase64Rejected ==
  (pc = "decrypted" /\ tamper.kind \in {"junk", "unpad"}) => dec = DecryptionError

----------------------------------------------------------------------------
\* The password codec.

\* verify_password was called with a record exactly as hash_password returned it.
CheckedStored == checked # NoCall /\ checked.of > 0 /\ checked.tamper.kind = "none"

\* The password and the salt of the record the last check was made against.
StoredPassword == hashed[checked.of].password
StoredSalt == get_random_bytes(32, hashed[checked.of].rnd)

\* C11: verify_password(p, hash_password(p)) is true for every password p,
\* and verify_password(wrongP, hash_password(p)) is false for every wrongP
\* different from p.
PasswordRoundTrip ==
  CheckedStored => checked.out = Return(checked.password = StoredPassword)

\* RFC 4648 base64 text: alphabet characters in groups of four, the last
\* group ending in at most two '='.
ValidBase64(r) ==
  LET pads == IF r # <<>> /\ r[Len(r)] = PadChar
              THEN (IF Len(r) > 1 /\ r[Len(r) - 1] = PadChar THEN 2 ELSE 1)
              ELSE 0
  IN /\ Len(r) % 4 = 0
     /\ \A i \in 1..(Len(r) - pads) : IsB64Data(r[i])

\* C12: verify_password never raises: for every password and every record
\* string it returns a boolean, and it returns false for every malformed
\* record, such as one that is not valid base64.
MalformedRecordSafe ==
  checked # NoCall =>
    /\ checked.out \in {Return(TRUE), Return(FALSE)}
    /\ ~ValidBase64(checked.hashed_password) => checked.out = Return(FALSE)

\* The bytes the record of the last check decodes to, when it is valid base64.
CheckedBytes == b64decode(Utf8Encode(checked.hashed_password).value).value

\* C13: verify_password returns false for every password when the record is
\* valid base64 but decodes to fewer bytes than the 32-byte salt (the empty
\* record included), to the salt alone, or to a truncated stored hash.
ShortRecordRefused ==
  (checked # NoCall /\ ValidBase64(checked.hashed_password)
     /\ Len(CheckedBytes) < 32 + 32)
  => checked.out = Return(FALSE)

ShortRecordWitness ==
  /\ checked # NoCall
  /\ checked.of > 0
  /\ checked.password = StoredPassword
  /\ ValidBase64(checked.hashed_password)
  /\ CheckedBytes = StoredSalt
  /\ checked.out = Return(FALSE)

\* C14: two hash_password calls on the same password draw fresh salts and
\* return two different record strings, and both records verify against
\* that password.
SaltUniqueness ==
  /\ \A m, n \in 1..Len(hashed) :
        (m # n /\ hashed[m].password = hashed[n].password)
        => /\ hashed[m].rnd # hashed[n].rnd
           /\ hashed[m].out.ok /\ hashed[n].out.ok
           /\ hashed[m].out.value # hashed[n].out.value
  /\ (CheckedStored /\ checked.password = StoredPassword)
     => checked.out = Return(TRUE)

SaltUniquenessWitness ==
  /\ Len(hashed) = 2
  /\ hashed[1].password = hashed[2].password
  /\ CheckedStored
  /\ checked.of = 2
  /\ checked.password = StoredPassword
  /\ checked.out = Return(TRUE)

\* C15: every record hash_password returns is one base64 string decoding to
\* exactly 64 bytes, the 32-byte salt followed by the 32-byte derived hash of
\* (password, salt); verify_password splits a record at the same offset 32.
RecordLayout ==
  /\ \A n \in 1..Len(hashed) :
        LET r == hashed[n].out.value
            bytes == b64decode(r).value
            salt == get_random_bytes(32, hashed[n].rnd)
        IN /\ hashed[n].out.ok
           /\ ValidBase64(r)
           /\ Len(bytes) = 64
           /\ SubSeq(bytes, 1, 32) = salt
           /\ SubSeq(bytes, 33, 64)
                = pbkdf2_hmac(Utf8Encode(hashed[n].password).value, salt)
           /\ Len(pbkdf2_hmac(Utf8Encode(hashed[n].password).value, salt)) = 32
  /\ (checked # NoCall /\ ValidBase64(checked.hashed_password)
        /\ Utf8Encode(checked.password).ok)
     => checked.out =
          Return(pbkdf2_hmac(Utf8Encode(checked.password).value,
                             SubSeq(CheckedBytes, 1, Min(32, Len(CheckedBytes))))
                 = SubSeq(CheckedBytes, 33, Len(CheckedBytes)))

RecordLayoutWitness ==
  /\ Len(hashed) = 1
  /\ Len(hashed[1].out.value) = 88
  /\ CheckedStored
  /\ checked.password = <<233>>
  /\ checked.out = Return(TRUE)

----------------------------------------------------------------------------
\* Randomised encryption.

\* C16: encrypting the same plaintext twice with the same public key gives
\* two different ciphertext strings with the same number of chunks, and both
\* decrypt with the matching private key to the plaintext.
EncryptTwice ==
  /\ pc \in {"encrypted_again", "decrypted_again"}
     => /\ enc.ok /\ again.enc.ok
        /\ again.enc.value # enc.value
        /\ Len(Split(again.enc.value, 124)) = Len(Split(enc.value, 124))
        /\ dec = Return(message)
  /\ pc = "decrypted_again" => again.dec = Return(message)

EncryptTwiceWitness ==
  /\ pc = "decrypted_again"
  /\ Len(Split(again.enc.value, 124)) = 3
  /\ again.dec = Return(message)
  /\ message[Len(message)] = 233

----------------------------------------------------------------------------
\* Concurrency.

----------------------------------------------------------------------------
\* Callers of the codec.

\* The rows of the last messages_view request, and its user's received
\* messages whose stored ciphertext decrypt_message refuses.
ViewRows == view.out.value
ViewFailing ==
  {i \in 1..Len(messages) :
     /\ messages[i].recipient_id = view.user_id
     /\ ~decrypt_message(messages[i].encrypted_content,
                         PrivatePem(view.user_id, 2048)).ok}

\* C18: a decryption failure is contained by messages_view: the request
\* completes and lists every message of the user, the failing message in a
\* decryption-failed state and the other received messages decrypted.
ViewContainsFailure ==
  view # NoCall =>
    /\ view.out.ok
    /\ Len(ViewRows) = Cardinality({ViewRows[n].id : n \in 1..Len(ViewRows)})
    /\ {ViewRows[n].id : n \in 1..Len(ViewRows)}
         = {i \in 1..Len(messages) : \/ messages[i].recipient_id = view.user_id
                                     \/ messages[i].sender_id = view.user_id}
    /\ \A n \in 1..Len(ViewRows) :
          LET i == ViewRows[n].id
          IN messages[i].recipient_id = view.user_id =>
               IF i \in ViewFailing
               THEN /\ ViewRows[n].decrypted_content = None
                    /\ ViewRows[n].decryption_error = Some("Failed to decrypt message")
               ELSE /\ ViewRows[n].decrypted_content = Some(messages[i].content)
                    /\ ViewRows[n].decryption_error = None
    /\ view.db_out.ok
    /\ LET rows == view.db_out.value.received_messages
       IN /\ Len(rows) = Cardinality({rows[n].message : n \in 1..Len(rows)})
          /\ {rows[n].message : n \in 1..Len(rows)}
               = {i \in 1..Len(messages) : messages[i].recipient_id = view.user_id}
          /\ \A n \in 1..Len(rows) :
                rows[n].decrypted_content
                  = IF rows[n].message \in ViewFailing THEN ErrorDecrypting
                    ELSE messages[rows[n].message].content

ViewContainsFailureWitness ==
  /\ view # NoCall
  /\ view.out.ok
  /\ Len(ViewRows) = 2
  /\ ViewRows[1].decrypted_content = None
  /\ ViewRows[1].decryption_error # None
  /\ ViewRows[2].decrypted_content = Some(messages[1].content)
  /\ Len(messages[1].content) > 214

----------------------------------------------------------------------------
\* Failure reporting.

\* C19: the core operations are leaves: on failure none of them retries the
\* primitive and none of them writes a log entry; a failure reaches the
\* caller only through the raised error (or the false result of
\* verify_password).
OperationsDoNotLog == logged = <<>>

\* The completed calls that raised.
FailedCalls == {t \in Threads : threads[t].pc = "done" /\ ~threads[t].out.ok}

\* C20: generate_key_pair, encrypt_message and decrypt_message each fail with
\* an error kind of their own, which the caller can tell from the kinds of
\* the other two and from an unrelated failure.
ErrorKindsDistinct ==
  /\ \A t \in FailedCalls : threads[t].out.class # "Exception"
  /\ \A t, u \in FailedCalls :
        threads[t].call.op # threads[u].call.op
        => threads[t].out.class # threads[u].out.class

----------------------------------------------------------------------------
\* The requests that reported success, by handler.
Succeeded(handler) == {s \in successes : s.handler = handler}

\* C21: after any interleaving of concurrent register requests, no two
\* entries of the users map hold the same email, and the entry every
\* successful registration stored is still the one under its user id (no
\* later registration has overwritten it).
RegisteredUsersKept ==
  /\ \A m, n \in 1..Len(users) : users[m].email = users[n].email => m = n
  /\ \A s \in Succeeded("register") : users[s.id] = s.entry

\* C22: after any interleaving of concurrent send_message requests, the
\* messages map holds one entry per send that reported success, and the
\* entry each of them stored is still the one under its message id.
SentMessagesKept ==
  /\ Len(messages) = Cardinality(Succeeded("send_message"))
  /\ \A s \in Succeeded("send_message") : messages[s.id] = s.entry

Protected == {"dashboard", "send_message", "messages_view", "users_list"}

\* The session holds a user_id of an existing user.
HoldsExistingUser == session # None /\ session[1] \in 1..Len(users)

\* C24: a handler wrapped by require_login runs its body exactly when the
\* session holds a user_id of an existing user; otherwise the response is a
\* redirect to login, and the request has written neither map and left the
\* session as it was.  logout leaves the session without user_id, and only
\* logout, a successful login and a successful registration change the
\* session's user_id, so that from a logout to the next successful login or
\* registration every such request is redirected.
RequireLogin ==
  /\ response.handler \in Protected
       => /\ response.body <=> HoldsExistingUser
          /\ ~response.body => /\ response.status = "redirect"
                               /\ response.target = "login"
                               /\ response.out = None
                               /\ ~response.changed
          /\ session = response.session_before
  /\ response.handler = "logout" => session = None
  /\ (response.handler # "none" /\ session # response.session_before)
       => \/ response.handler = "logout"
          \/ /\ response.handler \in {"login", "register"}
             /\ response.status = "redirect"
             /\ response.target = "dashboard"

\* After a logout, with users registered, a send_message request is redirected.
RequireLoginWitness ==
  /\ response.handler = "send_message"
  /\ ~response.body
  /\ session = None
  /\ response.form.message = HelloWorld \o <<32>>
  /\ FindUser(lower(strip(response.form.recipient_email))) # None

\* C25: a login that sets the session's user_id sets it to a user whose
\* email is the submitted email, trimmed and lower-cased, and whose stored
\* record verify_password accepts for the submitted password; any other
\* login leaves the session's user_id and the users map as they were.
LoginChecksPassword ==
  response.handler = "login"
    => /\ (response.status = "redirect" \/ session # response.session_before)
            => /\ HoldsExistingUser
               /\ users[session[1]].email = lower(strip(response.form.email))
               /\ verify_password(response.form.password,
                                  users[session[1]].password_hash) = Return(TRUE)
       /\ response.status # "redirect"
            => /\ session = response.session_before
               /\ ~response.changed

\* A logged-out browser logs in with ' A ' and the password of user 'a'.
LoginChecksPasswordWitness ==
  /\ response.handler = "login"
  /\ response.status = "redirect"
  /\ response.session_before = None
  /\ response.form = [email |-> <<32, 65, 32>>, password |-> Secret]
  /\ session # None

\* The check the last verify_code call made found the stored code expired.
CheckedExpired == response.at > response.stored_before[1].expires_at

\* The code submitted to the last verify_code call, trimmed, is the stored one.
CheckedMatches == strip(response.submitted_code) = response.stored_before[1].code

\* C26: an email has at most one stored code, and after send_verification_email
\* it is the one just generated, whatever was stored before; verify_code
\* returns True at most once for a generated code; a check of an email
\* without a stored code returns False; a check of an expired code returns
\* False and deletes it; a check with the stored code, not expired, returns
\* True and deletes it; a check with another code returns False and
\* leaves the stored code as it was.
CodeSingleUse ==
  /\ \A c \in codes, d \in codes : c.email = d.email => c = d
  /\ response.handler = "send_verification_email"
       => Stored(response.email) =
            Some([email |-> response.email,
                  code |-> issued[Len(issued)].code,
                  expires_at |-> response.at + code_expiry_minutes,
                  issue |-> Len(issued)])
  /\ \A s \in successes : s.handler = "verify_code" => s.nth = 1
  /\ response.handler = "verify_code"
       => IF response.stored_before = None
          THEN ~response.out /\ Stored(response.email) = None
          ELSE IF CheckedExpired
          THEN ~response.out /\ Stored(response.email) = None
          ELSE IF CheckedMatches
          THEN response.out /\ Stored(response.email) = None
          ELSE ~response.out /\ Stored(response.email) = response.stored_before

\* The code that a check accepted is submitted again: the check returns False.
CodeSingleUseWitness ==
  /\ response.handler = "verify_code"
  /\ ~response.out
  /\ response.stored_before = None
  /\ \E s \in successes :
       /\ s.handler = "verify_code"
       /\ issued[s.id].email = response.email
       /\ issued[s.id].code = strip(response.submitted_code)

\* C27: mark_message_read answers 200 and leaves read_at set when the
\* logged-in user is the recipient of the message: set to the time of the
\* request when it was NULL, and as it was when it was set; for any other
\* user, and for an id that is no message, it answers 404 and changes no
\* message.  No message has its read_at written twice, and read_at keeps the
\* value of its one write.
ReadAtWrittenOnce ==
  /\ response.handler = "mark_message_read"
       => IF response.recipient_id = Some(response.current_user)
          THEN /\ response.status = 200 /\ response.success
               /\ ReadAt(response.message_id) =
                    IF response.read_before = None
                    THEN Some(response.at)
                    ELSE response.read_before
               /\ response.changed =
                    IF response.read_before = None THEN {response.message_id} ELSE {}
          ELSE /\ response.status = 404 /\ ~response.success
               /\ response.changed = {}
  /\ \A s \in successes :
       s.handler = "mark_as_read"
         => /\ s.nth = 1
            /\ ReadAt(s.id) = Some(s.read_at)
            /\ messages[s.id].recipient_id # messages[s.id].sender_id

\* The recipient marks a message read that was read at an earlier time.
ReadAtWrittenOnceWitness ==
  /\ response.handler = "mark_message_read"
  /\ response.status = 200
  /\ response.read_before # None
  /\ response.at > response.read_before[1]
  /\ ReadAt(response.message_id) = response.read_before

====
